---- MODULE Spec2Model ----
(***************************************************************************)
(* Model of designer/graphs/nodes/delete.rs of ten_manager:                *)
(* graph_delete_extension_node (node removal, connection cascade, pruning, *)
(* validation with rollback) and delete_graph_node_endpoint (write locks,  *)
(* graph lookup, property.json update, response).                          *)
(*                                                                         *)
(* Option<String> is modelled by the string itself, with NoneStr for None. *)
(* Option<Vec<T>> is modelled by a record [some, val]: NoneVec for None    *)
(* and Some(v) for a present vector, so that a present-but-empty vector    *)
(* differs from an absent one, as in Rust.                                 *)
(***************************************************************************)
EXTENDS Integers, Sequences, FiniteSets, TLC

VARIABLES
    graphs_cache,       \* graph id -> Graph (state.graphs_cache)
    pkgs_lock,          \* holder of state.pkgs_cache.write(), or NoOwner
    graphs_lock,        \* holder of state.graphs_cache.write(), or NoOwner
    pc,                 \* position of every request in the endpoint
    request_payload,    \* DeleteGraphNodeRequestPayload of every request
    original_graph,     \* local of graph_delete_extension_node
    original_nodes_len, \* local of graph_delete_extension_node
    result,             \* what graph_delete_extension_node returned
    response,           \* HTTP answer of the endpoint
    validate_calls,     \* calls of validate_and_complete_and_flatten made
    update_calls        \* calls of update_graph_node_in_property_all_fields

vars == <<graphs_cache, pkgs_lock, graphs_lock, pc, request_payload,
          original_graph, original_nodes_len, result, response,
          validate_calls, update_calls>>

----------------------------------------------------------------------------
\* Bounds of the model.

MaxNodes == 1
MaxConns == 2

\* The concurrent requests.
Procs == {1, 2}

----------------------------------------------------------------------------
\* Data model (ten_rust::graph), as far as delete.rs reads and writes it.

NoneStr == "<none>"
NoneVec == [some |-> FALSE, val |-> <<>>]
Some(v) == [some |-> TRUE, val |-> v]
NoOwner == 0

Node(type_, name, addon, app, extension_group) ==
    [type_ |-> type_, name |-> name, addon |-> addon, app |-> app,
     extension_group |-> extension_group]

Loc(extension, app) == [extension |-> extension, app |-> app]
Dest(extension, app) == [loc |-> Loc(extension, app)]
Flow(name, dest) == [name |-> name, dest |-> dest]
Conn(loc, cmd, data, audio_frame, video_frame) ==
    [loc |-> loc, cmd |-> cmd, data |-> data,
     audio_frame |-> audio_frame, video_frame |-> video_frame]
Graph(nodes, connections) == [nodes |-> nodes, connections |-> connections]

Payload(graph_id, name, addon, extension_group, app) ==
    [graph_id |-> graph_id, name |-> name, addon |-> addon,
     extension_group |-> extension_group, app |-> app]

----------------------------------------------------------------------------
\* graph_delete_extension_node, step by step.

\* A node comparison that forgets the extension group.
NodeMatchesAnyGroup(node, pkg_name, addon, app, extension_group) ==
    /\ node.type_ = "Extension"
    /\ node.name = pkg_name
    /\ node.addon = addon
    /\ node.app = app

\* A node comparison that forgets the variant of the node.
NodeMatchesAnyType(node, pkg_name, addon, app, extension_group) ==
    /\ node.name = pkg_name
    /\ node.addon = addon
    /\ node.app = app
    /\ node.extension_group = extension_group

\* The closure of graph.nodes.retain: TRUE for a node that is removed.
NodeMatches(node, pkg_name, addon, app, extension_group) ==
    /\ node.type_ = "Extension"
    /\ node.name = pkg_name
    /\ node.addon = addon
    /\ node.app = app
    /\ node.extension_group = extension_group

\* A removal that stops at the first matching node.
RetainNodesFirstOnly(nodes, pkg_name, addon, app, extension_group) ==
    LET hits == {i \in DOMAIN nodes :
                    NodeMatches(nodes[i], pkg_name, addon, app,
                                extension_group)}
        first == CHOOSE i \in hits : \A j \in hits : i <= j
    IN  IF hits = {} THEN nodes
        ELSE SubSeq(nodes, 1, first - 1)
             \o SubSeq(nodes, first + 1, Len(nodes))

RetainNodes(nodes, pkg_name, addon, app, extension_group) ==
    SelectSeq(nodes,
        LAMBDA node : ~NodeMatches(node, pkg_name, addon, app, extension_group))

\* A location comparison that takes an unset app for any app.
LocMatchesUnsetAsAny(loc, pkg_name, app) ==
    /\ loc.extension = pkg_name
    /\ (loc.app = app \/ loc.app = NoneStr \/ app = NoneStr)

\* loc.extension.as_ref() == Some(&pkg_name) && loc.app == app
LocMatches(loc, pkg_name, app) ==
    /\ loc.extension = pkg_name
    /\ loc.app = app

\* A cascade without the removal of the connections of the source.
RetainSourcesSkipped(connections, pkg_name, app) == connections

\* 1. Remove entire connections with matching app and extension.
RetainSources(connections, pkg_name, app) ==
    SelectSeq(connections, LAMBDA conn : ~LocMatches(conn.loc, pkg_name, app))

\* flow.dest.retain(...)
RetainDests(dest, pkg_name, app) ==
    SelectSeq(dest, LAMBDA d : ~LocMatches(d.loc, pkg_name, app))

\* A category block without the removal of the empty flows.
CascadeFlowsKeepEmpty(flows, pkg_name, app) ==
    IF flows.some
    THEN Some([i \in DOMAIN flows.val |->
                [flows.val[i] EXCEPT !.dest = RetainDests(@, pkg_name, app)]])
    ELSE flows

\* A category block that drops every flow it took a destination from.
CascadeFlowsDropTouched(flows, pkg_name, app) ==
    IF flows.some
    THEN Some(SelectSeq(flows.val,
            LAMBDA flow : /\ flow.dest # <<>>
                          /\ RetainDests(flow.dest, pkg_name, app)
                                = flow.dest))
    ELSE flows

\* One "if let Some(flows) = &mut connection.<category>" block: filter the
\* destinations of every flow, then drop the flows left without destination.
\* The container itself stays Some, whatever is left in it.
CascadeFlows(flows, pkg_name, app) ==
    IF flows.some
    THEN Some(SelectSeq(
            [i \in DOMAIN flows.val |->
                [flows.val[i] EXCEPT !.dest = RetainDests(@, pkg_name, app)]],
            LAMBDA flow : flow.dest # <<>>))
    ELSE flows

CascadeCmd(conn, pkg_name, app) ==
    [conn EXCEPT !.cmd = CascadeFlows(@, pkg_name, app)]
CascadeDataIntoCmd(conn, pkg_name, app) ==
    [conn EXCEPT !.cmd = CascadeFlows(conn.data, pkg_name, app)]
CascadeData(conn, pkg_name, app) ==
    [conn EXCEPT !.data = CascadeFlows(@, pkg_name, app)]
CascadeAudioFrame(conn, pkg_name, app) ==
    [conn EXCEPT !.audio_frame = CascadeFlows(@, pkg_name, app)]
CascadeVideoFrameSkipped(conn, pkg_name, app) == conn
CascadeVideoFrame(conn, pkg_name, app) ==
    [conn EXCEPT !.video_frame = CascadeFlows(@, pkg_name, app)]

\* 2. The body of "for connection in connections.iter_mut()".
CascadeConnection(conn, pkg_name, app) ==
    CascadeVideoFrame(
        CascadeAudioFrame(
            CascadeData(
                CascadeCmd(conn, pkg_name, app), pkg_name, app),
            pkg_name, app),
        pkg_name, app)

CascadeConnections(connections, pkg_name, app) ==
    [i \in DOMAIN connections |->
        CascadeConnection(connections[i], pkg_name, app)]

\* A pruner that takes a present container for flows.
HasFlowsIfPresent(conn) ==
    conn.cmd.some \/ conn.data.some \/ conn.audio_frame.some
        \/ conn.video_frame.some

\* The closure of the last connections.retain: TRUE for a connection kept.
HasFlows(conn) ==
    LET has_cmd == conn.cmd.some /\ conn.cmd.val # <<>>
        has_data == conn.data.some /\ conn.data.val # <<>>
        has_audio == conn.audio_frame.some /\ conn.audio_frame.val # <<>>
        has_video == conn.video_frame.some /\ conn.video_frame.val # <<>>
    IN  has_cmd \/ has_data \/ has_audio \/ has_video

PruneConnections(connections) == SelectSeq(connections, HasFlows)

\* A pruner that leaves an empty connection list in place.
KeepEmptyConnections(connections) == Some(connections)

\* "if connections.is_empty() { graph.connections = None; }"
NormalizeConnections(connections) ==
    IF connections = <<>> THEN NoneVec ELSE Some(connections)

\* A rollback that restores the node list only.
RollbackNodesOnly(live, original) == [live EXCEPT !.nodes = original.nodes]

\* "*graph = original_graph;"
Rollback(live, original) == original

\* graph.validate_and_complete_and_flatten(None): the validator of ten_rust.
\* It accepts or rejects the graph it is given. A rejection may come after
\* the validator already changed the graph in place; an acceptance leaves
\* the nodes and connections it was given.
ValidatorOutcomes(g) ==
    {[ok |-> TRUE, graph |-> g]}
    \cup {[ok |-> FALSE, graph |-> h] :
            h \in {g, Graph(<<>>, g.connections), Graph(g.nodes, NoneVec)}}

\* update_graph_node_in_property_all_fields(..., Delete): rewrites the
\* property.json of the package owning the graph; it succeeds or fails and
\* leaves the graph in the cache alone.
UpdateOutcomes == {"Ok", "Err"}

----------------------------------------------------------------------------
\* The inputs: graphs in the cache and request payloads.

SeqsUpTo(S, n) == UNION {[1..k -> S] : k \in 0..n}

nodeA       == Node("Extension", "A", "addon1", NoneStr, NoneStr)
nodeA_group == Node("Extension", "A", "addon1", NoneStr, "group1")
nodeA_app   == Node("Extension", "A", "addon1", "app1", NoneStr)
nodeA_addon == Node("Extension", "A", "addon2", NoneStr, NoneStr)
nodeA_sub   == Node("Subgraph", "A", "addon1", NoneStr, NoneStr)
nodeB       == Node("Extension", "B", "addon1", NoneStr, NoneStr)

NodeUniverse ==
    {nodeA, nodeA_group, nodeA_app, nodeA_addon, nodeA_sub, nodeB}

dA   == Dest("A", NoneStr)
dA1  == Dest("A", "app1")
dB   == Dest("B", NoneStr)

\* A -> B, cmd: the source is the node "A" of the default app.
connAB == Conn(Loc("A", NoneStr),
               Some(<<Flow("f", <<dB>>)>>), NoneVec, NoneVec, NoneVec)
\* B -> A, data: the only destination is "A".
connBA == Conn(Loc("B", NoneStr),
               NoneVec, Some(<<Flow("f", <<dA>>)>>), NoneVec, NoneVec)
\* B -> several destinations in two cmd flows.
connBcmd == Conn(Loc("B", NoneStr),
               Some(<<Flow("f", <<dA, dB, dA1>>), Flow("g", <<dA>>)>>),
               NoneVec, NoneVec, NoneVec)
\* B -> audio_frame and video_frame flows.
connBav == Conn(Loc("B", "app1"),
               NoneVec, NoneVec,
               Some(<<Flow("f", <<dB, dA>>), Flow("g", <<dA1>>)>>),
               Some(<<Flow("f", <<dA>>)>>))
\* A of app1 -> B, video_frame.
connA1B == Conn(Loc("A", "app1"),
               NoneVec, NoneVec, NoneVec, Some(<<Flow("f", <<dB>>)>>))
\* A connection as a hand-written property.json can hold it: an empty cmd
\* list and a data flow without destination.
connEmpty == Conn(Loc("B", NoneStr),
               Some(<<>>), Some(<<Flow("f", <<>>)>>), NoneVec, NoneVec)

ConnUniverse == {connAB, connBA, connBcmd, connBav, connA1B, connEmpty}

\* The connection lists of the bounded graphs.
ConnLists ==
    {NoneVec} \cup {Some(c) : c \in SeqsUpTo(ConnUniverse, MaxConns)}

Graphs ==
    {Graph(nodes, connections) :
        nodes \in SeqsUpTo(NodeUniverse, MaxNodes),
        connections \in ConnLists}

\* Larger graphs: several nodes around the ones that match, and up to
\* three connections.
LargeGraphs ==
    {Graph(nodes, connections) :
        nodes \in {<<nodeA, nodeB>>,
                   <<nodeB, nodeA, nodeA_sub>>,
                   <<nodeA, nodeA_group, nodeA_app>>,
                   <<nodeA_addon, nodeA, nodeB, nodeA>>},
        connections \in ConnLists \cup
                        {Some(<<connBcmd, connAB, connBav>>),
                         Some(<<connBav, connBA, connBcmd>>)}}

\* The graphs of the runs with two concurrent requests.
ConcGraphs ==
    {Graph(nodes, connections) :
        nodes \in {<<nodeA, nodeB>>, <<nodeA, nodeA_group>>,
                   <<nodeA, nodeA>>, <<nodeB>>},
        connections \in {NoneVec, Some(<<connAB, connBA>>),
                         Some(<<connBcmd>>), Some(<<connBav>>)}}

GraphIds == {"graph1"}

Payloads ==
    {Payload(graph_id, "A", "addon1", extension_group, app) :
        graph_id \in {"graph1", "graph2"},
        extension_group \in {NoneStr, "group1"},
        app \in {NoneStr, "app1"}}

NoPayload == Payload(NoneStr, NoneStr, NoneStr, NoneStr, NoneStr)
NoGraph == Graph(<<>>, NoneVec)

----------------------------------------------------------------------------
\* The state before any request is handled.

InitWith(graphs, procs) ==
    /\ graphs_cache \in [GraphIds -> graphs]
    /\ pkgs_lock = NoOwner
    /\ graphs_lock = NoOwner
    /\ pc = [p \in Procs |-> IF p \in procs THEN "idle" ELSE "closed"]
    /\ request_payload = [p \in Procs |-> NoPayload]
    /\ original_graph = [p \in Procs |-> NoGraph]
    /\ original_nodes_len = [p \in Procs |-> 0]
    /\ result = [p \in Procs |-> "none"]
    /\ response = [p \in Procs |-> "none"]
    /\ validate_calls = [p \in Procs |-> 0]
    /\ update_calls = [p \in Procs |-> 0]

\* One request.
Init == InitWith(Graphs \cup LargeGraphs, {1})

\* Two concurrent requests.
InitConc == InitWith(ConcGraphs, Procs)

----------------------------------------------------------------------------
\* delete_graph_node_endpoint

\* A request arrives with its payload.
Receive(p) ==
    /\ pc[p] = "idle"
    /\ \E payload \in Payloads :
        request_payload' = [request_payload EXCEPT ![p] = payload]
    /\ pc' = [pc EXCEPT ![p] = "lock_pkgs"]
    /\ UNCHANGED <<graphs_cache, pkgs_lock, graphs_lock, original_graph,
                   original_nodes_len, result, response, validate_calls,
                   update_calls>>

\* let mut pkgs_cache = state.pkgs_cache.write().await;
LockFreeAlways(lock) == TRUE
LockFree(lock) == lock = NoOwner

LockPkgs(p) ==
    /\ pc[p] = "lock_pkgs"
    /\ LockFree(pkgs_lock)
    /\ pkgs_lock' = p
    /\ pc' = [pc EXCEPT ![p] = "lock_graphs"]
    /\ UNCHANGED <<graphs_cache, graphs_lock, request_payload,
                   original_graph, original_nodes_len, result, response,
                   validate_calls, update_calls>>

\* let mut graphs_cache = state.graphs_cache.write().await;
LockGraphs(p) ==
    /\ pc[p] = "lock_graphs"
    /\ LockFree(graphs_lock)
    /\ graphs_lock' = p
    /\ pc' = [pc EXCEPT ![p] = "find"]
    /\ UNCHANGED <<graphs_cache, pkgs_lock, request_payload,
                   original_graph, original_nodes_len, result, response,
                   validate_calls, update_calls>>

\* The guards of both locks are dropped when the endpoint returns.
Return(p, answer) ==
    /\ response' = [response EXCEPT ![p] = answer]
    /\ pkgs_lock' = NoOwner
    /\ graphs_lock' = NoOwner
    /\ pc' = [pc EXCEPT ![p] = "done"]

\* graphs_cache_find_by_id_mut: None answers 404 "Graph not found".
FindGraph(p) ==
    /\ pc[p] = "find"
    /\ IF request_payload[p].graph_id \in DOMAIN graphs_cache
       THEN /\ pc' = [pc EXCEPT ![p] = "clone"]
            /\ UNCHANGED <<pkgs_lock, graphs_lock, response>>
       ELSE Return(p, "NotFound")
    /\ UNCHANGED <<graphs_cache, request_payload, original_graph,
                   original_nodes_len, result, validate_calls, update_calls>>

----------------------------------------------------------------------------
\* graph_delete_extension_node on the graph found in the cache.

TheGraph(p) == graphs_cache[request_payload[p].graph_id]

SetGraph(p, g) ==
    graphs_cache' = [graphs_cache EXCEPT ![request_payload[p].graph_id] = g]

\* let original_graph = graph.clone();
CloneGraph(p) ==
    /\ pc[p] = "clone"
    /\ original_graph' = [original_graph EXCEPT ![p] = TheGraph(p)]
    /\ pc' = [pc EXCEPT ![p] = "retain_nodes"]
    /\ UNCHANGED <<graphs_cache, pkgs_lock, graphs_lock, request_payload,
                   original_nodes_len, result, response, validate_calls,
                   update_calls>>

\* A node removal without the early return.
RemoveNodesNoEarlyReturn(p) ==
    /\ pc[p] = "retain_nodes"
    /\ LET req == request_payload[p]
           g == TheGraph(p)
           nodes == RetainNodes(g.nodes, req.name, req.addon, req.app,
                                req.extension_group)
       IN  /\ original_nodes_len' =
                [original_nodes_len EXCEPT ![p] = Len(g.nodes)]
           /\ SetGraph(p, [g EXCEPT !.nodes = nodes])
           /\ result' = result
           /\ pc' = [pc EXCEPT ![p] =
                IF g.connections.some THEN "retain_sources" ELSE "validate"]
    /\ UNCHANGED <<pkgs_lock, graphs_lock, request_payload, original_graph,
                   response, validate_calls, update_calls>>

\* An endpoint that answers a call that removed no node without updating
\* the property file.
RemoveNodesAnswerNoOp(p) ==
    /\ pc[p] = "retain_nodes"
    /\ LET req == request_payload[p]
           g == TheGraph(p)
           nodes == RetainNodes(g.nodes, req.name, req.addon, req.app,
                                req.extension_group)
       IN  /\ original_nodes_len' =
                [original_nodes_len EXCEPT ![p] = Len(g.nodes)]
           /\ SetGraph(p, [g EXCEPT !.nodes = nodes])
           /\ IF Len(nodes) = Len(g.nodes)
              THEN /\ result' = [result EXCEPT ![p] = "Ok"]
                   /\ Return(p, "Ok")
              ELSE /\ result' = result
                   /\ pc' = [pc EXCEPT ![p] =
                        IF g.connections.some THEN "retain_sources"
                                              ELSE "validate"]
                   /\ UNCHANGED <<pkgs_lock, graphs_lock, response>>
    /\ UNCHANGED <<request_payload, original_graph, validate_calls,
                   update_calls>>

\* graph.nodes.retain(...), and the early return when no node was removed.
RemoveNodes(p) ==
    /\ pc[p] = "retain_nodes"
    /\ LET req == request_payload[p]
           g == TheGraph(p)
           nodes == RetainNodes(g.nodes, req.name, req.addon, req.app,
                                req.extension_group)
       IN  /\ original_nodes_len' =
                [original_nodes_len EXCEPT ![p] = Len(g.nodes)]
           /\ SetGraph(p, [g EXCEPT !.nodes = nodes])
           /\ IF Len(nodes) = Len(g.nodes)
              THEN /\ result' = [result EXCEPT ![p] = "Ok"]
                   /\ pc' = [pc EXCEPT ![p] = "update_property"]
              ELSE /\ result' = result
                   /\ pc' = [pc EXCEPT ![p] =
                        IF g.connections.some THEN "retain_sources"
                                              ELSE "validate"]
    /\ UNCHANGED <<pkgs_lock, graphs_lock, request_payload, original_graph,
                   response, validate_calls, update_calls>>

\* 1. Remove entire connections with matching app and extension.
RemoveSources(p) ==
    /\ pc[p] = "retain_sources"
    /\ LET req == request_payload[p]
           g == TheGraph(p)
       IN  SetGraph(p, [g EXCEPT !.connections =
                Some(RetainSources(g.connections.val, req.name, req.app))])
    /\ pc' = [pc EXCEPT ![p] = "cascade"]
    /\ UNCHANGED <<pkgs_lock, graphs_lock, request_payload, original_graph,
                   original_nodes_len, result, response, validate_calls,
                   update_calls>>

\* A cascade that spares the destinations while a node of the same name
\* and app is left in the node list.
CascadeUnlessNodeLeft(p) ==
    /\ pc[p] = "cascade"
    /\ LET req == request_payload[p]
           g == TheGraph(p)
           left == \E i \in DOMAIN g.nodes :
                        /\ g.nodes[i].name = req.name
                        /\ g.nodes[i].app = req.app
       IN  SetGraph(p, [g EXCEPT !.connections =
                IF left THEN @
                ELSE Some(CascadeConnections(g.connections.val, req.name,
                                             req.app))])
    /\ pc' = [pc EXCEPT ![p] = "prune"]
    /\ UNCHANGED <<pkgs_lock, graphs_lock, request_payload, original_graph,
                   original_nodes_len, result, response, validate_calls,
                   update_calls>>

\* 2. Remove destinations from message flows in all connections.
Cascade(p) ==
    /\ pc[p] = "cascade"
    /\ LET req == request_payload[p]
           g == TheGraph(p)
       IN  SetGraph(p, [g EXCEPT !.connections =
                Some(CascadeConnections(g.connections.val, req.name,
                                        req.app))])
    /\ pc' = [pc EXCEPT ![p] = "prune"]
    /\ UNCHANGED <<pkgs_lock, graphs_lock, request_payload, original_graph,
                   original_nodes_len, result, response, validate_calls,
                   update_calls>>

\* Remove connections that have no message flows left; if no connections
\* are left, set connections to None.
Prune(p) ==
    /\ pc[p] = "prune"
    /\ LET g == TheGraph(p)
       IN  SetGraph(p, [g EXCEPT !.connections =
                NormalizeConnections(PruneConnections(g.connections.val))])
    /\ pc' = [pc EXCEPT ![p] = "validate"]
    /\ UNCHANGED <<pkgs_lock, graphs_lock, request_payload, original_graph,
                   original_nodes_len, result, response, validate_calls,
                   update_calls>>

\* An endpoint that goes on to the property file after a rejection.
ValidateThenUpdate(p) ==
    /\ pc[p] = "validate"
    /\ validate_calls' = [validate_calls EXCEPT ![p] = @ + 1]
    /\ \E outcome \in ValidatorOutcomes(TheGraph(p)) :
        IF outcome.ok
        THEN /\ SetGraph(p, outcome.graph)
             /\ result' = [result EXCEPT ![p] = "Ok"]
             /\ pc' = [pc EXCEPT ![p] = "update_property"]
        ELSE /\ SetGraph(p, Rollback(outcome.graph, original_graph[p]))
             /\ result' = [result EXCEPT ![p] = "Err"]
             /\ pc' = [pc EXCEPT ![p] = "update_property"]
    /\ UNCHANGED <<pkgs_lock, graphs_lock, request_payload, original_graph,
                   original_nodes_len, response, update_calls>>

\* A validation whose rejection restores the graph and reports success.
ValidateOkAfterReject(p) ==
    /\ pc[p] = "validate"
    /\ validate_calls' = [validate_calls EXCEPT ![p] = @ + 1]
    /\ \E outcome \in ValidatorOutcomes(TheGraph(p)) :
        IF outcome.ok
        THEN /\ SetGraph(p, outcome.graph)
             /\ result' = [result EXCEPT ![p] = "Ok"]
             /\ pc' = [pc EXCEPT ![p] = "update_property"]
        ELSE /\ SetGraph(p, Rollback(outcome.graph, original_graph[p]))
             /\ result' = [result EXCEPT ![p] = "Ok"]
             /\ pc' = [pc EXCEPT ![p] = "update_property"]
    /\ UNCHANGED <<pkgs_lock, graphs_lock, request_payload, original_graph,
                   original_nodes_len, response, update_calls>>

\* A validation whose rejection restores the graph and tries again.
ValidateRetry(p) ==
    /\ pc[p] = "validate"
    /\ \E outcome \in ValidatorOutcomes(TheGraph(p)) :
        IF outcome.ok
        THEN /\ SetGraph(p, outcome.graph)
             /\ result' = [result EXCEPT ![p] = "Ok"]
             /\ pc' = [pc EXCEPT ![p] = "update_property"]
             /\ validate_calls' = [validate_calls EXCEPT ![p] = 1]
        ELSE /\ SetGraph(p, Rollback(outcome.graph, original_graph[p]))
             /\ result' = result
             /\ pc' = [pc EXCEPT ![p] = "retain_nodes"]
             /\ validate_calls' = validate_calls
    /\ UNCHANGED <<pkgs_lock, graphs_lock, request_payload, original_graph,
                   original_nodes_len, response, update_calls>>

\* match graph.validate_and_complete_and_flatten(None): Ok is returned as
\* it is, Err after the original graph was restored.
Validate(p) ==
    /\ pc[p] = "validate"
    /\ validate_calls' = [validate_calls EXCEPT ![p] = @ + 1]
    /\ \E outcome \in ValidatorOutcomes(TheGraph(p)) :
        IF outcome.ok
        THEN /\ SetGraph(p, outcome.graph)
             /\ result' = [result EXCEPT ![p] = "Ok"]
             /\ pc' = [pc EXCEPT ![p] = "update_property"]
        ELSE /\ SetGraph(p, Rollback(outcome.graph, original_graph[p]))
             /\ result' = [result EXCEPT ![p] = "Err"]
             /\ pc' = [pc EXCEPT ![p] = "delete_failed"]
    /\ UNCHANGED <<pkgs_lock, graphs_lock, request_payload, original_graph,
                   original_nodes_len, response, update_calls>>

----------------------------------------------------------------------------
\* delete_graph_node_endpoint after graph_delete_extension_node returned.

\* "Failed to delete node: {err}", 400.
DeleteFailed(p) ==
    /\ pc[p] = "delete_failed"
    /\ Return(p, "DeleteFailed")
    /\ UNCHANGED <<graphs_cache, request_payload, original_graph,
                   original_nodes_len, result, validate_calls, update_calls>>

\* update_graph_node_in_property_all_fields(..., Delete): its failure is
\* answered by "Failed to update property.json file: {e}", 400, its
\* success by success: true, 200.
UpdateProperty(p) ==
    /\ pc[p] = "update_property"
    /\ update_calls' = [update_calls EXCEPT ![p] = @ + 1]
    /\ \E outcome \in UpdateOutcomes :
        IF outcome = "Ok"
        THEN Return(p, "Ok")
        ELSE Return(p, "PropertyFailed")
    /\ UNCHANGED <<graphs_cache, request_payload, original_graph,
                   original_nodes_len, result, validate_calls>>

----------------------------------------------------------------------------

Next ==
    \E p \in Procs :
        \/ Receive(p)
        \/ LockPkgs(p)
        \/ LockGraphs(p)
        \/ FindGraph(p)
        \/ CloneGraph(p)
        \/ RemoveNodes(p)
        \/ RemoveSources(p)
        \/ Cascade(p)
        \/ Prune(p)
        \/ Validate(p)
        \/ DeleteFailed(p)
        \/ UpdateProperty(p)

Spec == Init /\ [][Next]_vars

SpecConc == InitConc /\ [][Next]_vars

\* graph_delete_extension_node is synchronous code without await: a call
\* that has started goes on, statement after statement, until it returns,
\* the validator being taken to return.
CoreStep(p) ==
    \/ CloneGraph(p)
    \/ RemoveNodes(p)
    \/ RemoveSources(p)
    \/ Cascade(p)
    \/ Prune(p)
    \/ Validate(p)

SpecFair == Spec /\ \A p \in Procs : WF_vars(CoreStep(p))

TypeOK ==
    /\ pkgs_lock \in Procs \cup {NoOwner}
    /\ graphs_lock \in Procs \cup {NoOwner}
    /\ \A p \in Procs :
        /\ result[p] \in {"none", "Ok", "Err"}
        /\ response[p] \in
            {"none", "NotFound", "DeleteFailed", "PropertyFailed", "Ok"}

----------------------------------------------------------------------------
\* Vocabulary of the properties, written from the statements and not from
\* the operators above.

Categories == {"cmd", "data", "audio_frame", "video_frame"}

\* The node has exactly the identity the request names.
IsTarget(node, req) ==
    /\ node.type_ = "Extension"
    /\ node.name = req.name
    /\ node.addon # NoneStr /\ node.addon = req.addon
    /\ node.app = req.app
    /\ node.extension_group = req.extension_group

\* The location names the extension of the request in the app of the
\* request, an unset app standing for itself only.
NamesTarget(loc, req) ==
    /\ loc.extension = req.name
    /\ IF req.app = NoneStr THEN loc.app = NoneStr
       ELSE loc.app # NoneStr /\ loc.app = req.app

\* The elements of seq at the positions of keep, in their order.
RECURSIVE PickFrom(_, _, _)
PickFrom(seq, keep, i) ==
    IF i > Len(seq) THEN <<>>
    ELSE (IF i \in keep THEN <<seq[i]>> ELSE <<>>)
         \o PickFrom(seq, keep, i + 1)

\* All destinations of a category container, flow after flow.
RECURSIVE AllDests(_)
AllDests(flowseq) ==
    IF flowseq = <<>> THEN <<>>
    ELSE Head(flowseq).dest \o AllDests(Tail(flowseq))

ConnsOf(g) == IF g.connections.some THEN g.connections.val ELSE <<>>

\* The connections of g whose source does not name the target.
OtherSources(g, req) ==
    LET conns == ConnsOf(g)
    IN  PickFrom(conns,
            {i \in DOMAIN conns : ~NamesTarget(conns[i].loc, req)}, 1)

\* The graph has a present-but-empty category container.
HasEmptyContainer(g) ==
    \E i \in DOMAIN ConnsOf(g) : \E cat \in Categories :
        ConnsOf(g)[i][cat].some /\ ConnsOf(g)[i][cat].val = <<>>

\* The graph obeys the data model: containers and flows are not empty.
WellFormed(g) ==
    /\ g.connections.some => g.connections.val # <<>>
    /\ \A i \in DOMAIN ConnsOf(g) : \A cat \in Categories :
        LET c == ConnsOf(g)[i][cat]
        IN  c.some => /\ c.val # <<>>
                      /\ \A j \in DOMAIN c.val : c.val[j].dest # <<>>

\* Some location of the graph, source or destination, names the target.
Mentions(g, req) ==
    \E i \in DOMAIN ConnsOf(g) :
        \/ NamesTarget(ConnsOf(g)[i].loc, req)
        \/ \E cat \in Categories :
            \E j \in DOMAIN ConnsOf(g)[i][cat].val :
                \E k \in DOMAIN ConnsOf(g)[i][cat].val[j].dest :
                    NamesTarget(ConnsOf(g)[i][cat].val[j].dest[k].loc, req)

\* Positions of a request inside graph_delete_extension_node, after the
\* snapshot was taken.
Mutating == {"retain_nodes", "retain_sources", "cascade", "prune"}
Validating == {"validate"}

\* graph_delete_extension_node has returned to the endpoint.
CoreReturned(p) == result[p] # "none"

\* The call of p has a snapshot and is past the node removal.
PastRemoval(p) ==
    \/ pc[p] \in {"retain_sources", "cascade", "prune", "validate"}
    \/ CoreReturned(p)

\* The graph had a node of the requested identity when p was called.
Matched(p) ==
    \E i \in DOMAIN original_graph[p].nodes :
        IsTarget(original_graph[p].nodes[i], request_payload[p])

\* The call of p returned success after removing at least one node.
Deleted(p) == CoreReturned(p) /\ result[p] = "Ok" /\ Matched(p)

\* The endpoint of p still holds the graph (the locks are not released).
Holds(p) == pc[p] \in {"update_property", "delete_failed"}

----------------------------------------------------------------------------
\* C1 (atomicity): when graph_delete_extension_node removed a node and the
\* validator rejected the mutated graph, the graph after the call equals,
\* nodes and connections, the graph before the call, whatever the validator
\* changed in place before it failed.
C1_Atomicity ==
    \A p \in Procs :
        (CoreReturned(p) /\ result[p] = "Err")
            => /\ Matched(p)
               /\ TheGraph(p) = original_graph[p]

C1_Witness ==
    \E p \in Procs :
        /\ CoreReturned(p) /\ result[p] = "Err"
        /\ validate_calls[p] = 1
        /\ Mentions(original_graph[p], request_payload[p])
        /\ TheGraph(p) = original_graph[p]

\* C2 (no-op): a request whose identity matches no Extension node of the
\* graph never reaches the cascade; it returns success and the graph, with
\* the connections that name the target, is what it was before the call.
C2_NoOp ==
    \A p \in Procs :
        (PastRemoval(p) /\ ~Matched(p))
            => /\ CoreReturned(p)
               /\ result[p] = "Ok"
               /\ TheGraph(p) = original_graph[p]

C2_Witness ==
    \E p \in Procs :
        /\ CoreReturned(p) /\ ~Matched(p) /\ result[p] = "Ok"
        /\ original_graph[p].nodes # <<>>
        /\ Mentions(original_graph[p], request_payload[p])
        /\ TheGraph(p) = original_graph[p]

C4_NoEmptyContainer ==
    \A p \in Procs :
        (Deleted(p) /\ WellFormed(original_graph[p]))
            => ~HasEmptyContainer(TheGraph(p))

C7_SourceDrop ==
    \A p \in Procs :
        Matched(p) =>
            /\ pc[p] = "cascade" =>
                ConnsOf(TheGraph(p))
                    = OtherSources(original_graph[p], request_payload[p])
            /\ (pc[p] \in {"cascade", "prune", "validate"} \/ Deleted(p)) =>
                /\ Len(ConnsOf(TheGraph(p)))
                    <= Len(OtherSources(original_graph[p],
                                        request_payload[p]))
                /\ \A i \in DOMAIN ConnsOf(TheGraph(p)) :
                    ~NamesTarget(ConnsOf(TheGraph(p))[i].loc,
                                 request_payload[p])

\* A connection of the target towards an unrelated node is gone while
\* another connection is still there, its destinations not yet filtered.
C7_Witness ==
    \E p \in Procs :
        /\ Matched(p) /\ pc[p] = "cascade"
        /\ \E i \in DOMAIN ConnsOf(original_graph[p]) :
            LET conn == ConnsOf(original_graph[p])[i]
            IN  /\ NamesTarget(conn.loc, request_payload[p])
                /\ \E cat \in Categories : \E j \in DOMAIN conn[cat].val :
                    \E k \in DOMAIN conn[cat].val[j].dest :
                        ~NamesTarget(conn[cat].val[j].dest[k].loc,
                                     request_payload[p])
        /\ Len(ConnsOf(TheGraph(p))) = 1
        /\ Mentions(TheGraph(p), request_payload[p])

\* C8 (None-equals-None app matching): after the cascade, the connections
\* are those whose source does not name the target, and in every category
\* of each of them the destinations are those of before without exactly the
\* ones that name the extension with the app of the request; an unset app
\* equals an unset app only.
C8_AppMatching ==
    \A p \in Procs :
        (Matched(p) /\ pc[p] = "prune") =>
            LET req == request_payload[p]
                old == OtherSources(original_graph[p], req)
                new == ConnsOf(TheGraph(p))
            IN  /\ Len(new) = Len(old)
                /\ \A i \in DOMAIN new :
                    /\ new[i].loc = old[i].loc
                    /\ \A cat \in Categories :
                        LET ds == AllDests(old[i][cat].val)
                        IN  AllDests(new[i][cat].val)
                            = PickFrom(ds,
                                {k \in DOMAIN ds :
                                    ~NamesTarget(ds[k].loc, req)}, 1)

\* The target has an app set: in one flow list the destination of that
\* app is stripped and the destination of the same name without app kept.
C8_Witness ==
    \E p \in Procs :
        /\ Matched(p) /\ pc[p] = "prune"
        /\ request_payload[p].app # NoneStr
        /\ LET req == request_payload[p]
               old == OtherSources(original_graph[p], req)
               new == ConnsOf(TheGraph(p))
               InSeq(x, seq) == \E k \in DOMAIN seq : seq[k] = x
           IN  \E i \in DOMAIN new : \E cat \in Categories :
                /\ InSeq(Dest(req.name, req.app), AllDests(old[i][cat].val))
                /\ InSeq(Dest(req.name, NoneStr), AllDests(old[i][cat].val))
                /\ ~InSeq(Dest(req.name, req.app), AllDests(new[i][cat].val))
                /\ InSeq(Dest(req.name, NoneStr), AllDests(new[i][cat].val))

\* C9 (mutual exclusion): a request holds the write lock of the graph
\* store from the lookup of the graph until its answer, and while it is
\* there no other request is anywhere between its own lookup and answer;
\* so no request sees the graph of a call that is mutating or validating.
Exclusive == {"find", "clone"} \cup Mutating \cup Validating
                \cup {"update_property", "delete_failed"}

C9_MutualExclusion ==
    \A p \in Procs :
        pc[p] \in Exclusive =>
            /\ graphs_lock = p
            /\ pkgs_lock = p
            /\ \A q \in Procs \ {p} : pc[q] \notin Exclusive

\* A request waits for the lock while the other one has removed the node
\* and not yet cascaded the connections.
C9_Witness ==
    \E p, q \in Procs :
        /\ p # q
        /\ pc[p] = "retain_sources"
        /\ Mentions(TheGraph(p), request_payload[p])
        /\ TheGraph(p) # original_graph[p]
        /\ pc[q] = "lock_pkgs"

\* C10 (secondary persistence): the property file is updated at most once
\* per request and only after graph_delete_extension_node returned
\* success, never after a rejection or a missing graph; its failure has
\* an answer of its own, and the step leaves the graph of the cache as the
\* deletion committed it.
C10_State ==
    \A p \in Procs :
        /\ update_calls[p] <= 1
        /\ update_calls[p] = 1 => result[p] = "Ok"
        /\ result[p] = "Err" => response[p] \in {"none", "DeleteFailed"}
        /\ response[p] = "DeleteFailed" => result[p] = "Err"
        /\ response[p] = "NotFound" =>
            (result[p] = "none" /\ update_calls[p] = 0)
        /\ response[p] \in {"Ok", "PropertyFailed"} =>
            (result[p] = "Ok" /\ update_calls[p] = 1)
        /\ (response[p] = "PropertyFailed" /\ Matched(p)) =>
            /\ TheGraph(p) # original_graph[p]
            /\ \A i \in DOMAIN TheGraph(p).nodes :
                ~IsTarget(TheGraph(p).nodes[i], request_payload[p])

C10_HookAfterSuccess ==
    /\ []C10_State
    /\ [][\A p \in Procs :
            (pc[p] = "update_property" /\ pc'[p] = "done")
                => graphs_cache' = graphs_cache]_vars

C10_Witness ==
    \E p \in Procs :
        /\ response[p] = "PropertyFailed"
        /\ Matched(p)
        /\ update_calls[p] = 1
        /\ TheGraph(p) # original_graph[p]

\* The connections are cascaded and pruned for the request: no location
\* names the target, every connection has flows, and the list is not a
\* present but empty one.
CascadedAndPruned(g, req) ==
    /\ ~Mentions(g, req)
    /\ \A i \in DOMAIN ConnsOf(g) :
        \E cat \in Categories : ConnsOf(g)[i][cat].val # <<>>
    /\ g.connections # Some(<<>>)

\* C11 (validation gating): the validator is called exactly once by a call
\* that removed a node, and only on a graph whose connections are cascaded
\* and pruned; a call that removed no node returns success at once and runs
\* neither the cascade, nor the pruner, nor the validator.
C11_ValidationGating ==
    \A p \in Procs :
        /\ validate_calls[p] <= 1
        /\ pc[p] \in Mutating => validate_calls[p] = 0
        /\ pc[p] = "validate" =>
            /\ Matched(p)
            /\ validate_calls[p] = 0
            /\ CascadedAndPruned(TheGraph(p), request_payload[p])
        /\ CoreReturned(p) =>
            validate_calls[p] = (IF Matched(p) THEN 1 ELSE 0)
        /\ ~Matched(p) =>
            pc[p] \notin {"retain_sources", "cascade", "prune", "validate"}

\* The validator accepted a graph from which sources and destinations of
\* the target had to be removed first.
C11_Witness ==
    \E p \in Procs :
        /\ CoreReturned(p) /\ result[p] = "Ok" /\ Matched(p)
        /\ validate_calls[p] = 1
        /\ Mentions(original_graph[p], request_payload[p])
        /\ Len(ConnsOf(TheGraph(p))) < Len(ConnsOf(original_graph[p]))

\* The two outcomes of a call of graph_delete_extension_node.
Committed(p) ==
    /\ result[p] = "Ok"
    /\ Matched(p) =>
        /\ validate_calls[p] = 1
        /\ Len(TheGraph(p).nodes) < Len(original_graph[p].nodes)
    /\ ~Matched(p) => TheGraph(p) = original_graph[p]

RolledBack(p) ==
    /\ result[p] = "Err"
    /\ Matched(p) /\ validate_calls[p] = 1
    /\ TheGraph(p) = original_graph[p]

\* C12 (no partial success): a call that returned is either committed
\* (success; the graph is without the removed nodes) or rolled back (the
\* error of the one validator call; the graph is the one before the call),
\* never an error with a changed graph nor a success with the nodes still
\* there; and what it returned and left in the graph stays.
C12_NoPartialSuccess ==
    /\ [](\A p \in Procs :
            CoreReturned(p) => (Committed(p) \/ RolledBack(p)))
    /\ [][\A p \in Procs :
            CoreReturned(p) =>
                /\ result'[p] = result[p]
                /\ graphs_cache' = graphs_cache]_vars

\* The rejected deletion was answered, the graph is the one before it.
C12_Witness ==
    \E p \in Procs :
        /\ pc[p] = "done" /\ response[p] = "DeleteFailed"
        /\ RolledBack(p)
        /\ original_graph[p].connections.some

\* C13 (run to completion): a call that has taken its snapshot and is
\* mutating or validating eventually returns, committed or rolled back.
C13_RunToCompletion ==
    \A p \in Procs :
        (pc[p] \in Mutating \cup Validating)
            ~> (CoreReturned(p) /\ (Committed(p) \/ RolledBack(p)))

\* A call is in the middle of the cascade of a graph with connections.
C13_Witness ==
    \E p \in Procs :
        /\ pc[p] = "prune"
        /\ Matched(p)
        /\ TheGraph(p) # original_graph[p]
        /\ ConnsOf(TheGraph(p)) # <<>>

\* The nodes of the original graph of p without the targets, in order.
OtherNodes(p) ==
    LET nodes == original_graph[p].nodes
    IN  PickFrom(nodes,
            {i \in DOMAIN nodes : ~IsTarget(nodes[i], request_payload[p])},
            1)

FlowsOf(g) ==
    UNION {{ConnsOf(g)[i][cat].val[j] : j \in DOMAIN ConnsOf(g)[i][cat].val} :
            i \in DOMAIN ConnsOf(g), cat \in Categories}

\* Every destination of the flow names the target.
OnlyTarget(flow, req) ==
    \A k \in DOMAIN flow.dest : NamesTarget(flow.dest[k].loc, req)

HasSomeFlow(conn) == \E cat \in Categories : conn[cat].val # <<>>

\* C16 (connection pruner): the pruning step drops exactly the connections
\* whose four category containers are absent or empty after the cascade,
\* keeps the others in their order, and leaves the connections absent when
\* it keeps none.
C16_Pruner ==
    [][\A p \in Procs :
        (pc[p] = "prune" /\ pc'[p] = "validate") =>
            LET old == ConnsOf(TheGraph(p))
                kept == PickFrom(old,
                            {i \in DOMAIN old : HasSomeFlow(old[i])}, 1)
            IN  graphs_cache'[request_payload[p].graph_id].connections
                    = IF kept = <<>> THEN NoneVec ELSE Some(kept)]_vars

\* The scenario of the nodes A and B: A -> B is dropped for its source,
\* B -> A for its only flow, which had A as only destination, and the
\* connections are absent.
C16_Witness ==
    \E p \in Procs :
        /\ pc[p] = "validate"
        /\ original_graph[p] = Graph(<<nodeA, nodeB>>,
                                     Some(<<connAB, connBA>>))
        /\ request_payload[p].app = NoneStr
        /\ TheGraph(p) = Graph(<<nodeB>>, NoneVec)

\* The pass of one category over a connection.
Pass(cat, conn, req) ==
    CASE cat = "cmd" -> CascadeCmd(conn, req.name, req.app)
      [] cat = "data" -> CascadeData(conn, req.name, req.app)
      [] cat = "audio_frame" -> CascadeAudioFrame(conn, req.name, req.app)
      [] cat = "video_frame" -> CascadeVideoFrame(conn, req.name, req.app)

\* The 24 orders of the four passes.
Orders ==
    {order \in [1..4 -> Categories] :
        \A i, j \in 1..4 : i # j => order[i] # order[j]}

InOrder(order, conn, req) ==
    Pass(order[4], Pass(order[3], Pass(order[2],
        Pass(order[1], conn, req), req), req), req)

\* C17 (category independence): on every connection that reaches the
\* cascade, the four passes give the same connection in each of their 24
\* orders, the one of the code included, and the pass of a category leaves
\* the source and the three other categories as they are.
C17_CategoryIndependence ==
    \A p \in Procs :
        (Matched(p) /\ pc[p] = "cascade") =>
            \A i \in DOMAIN ConnsOf(TheGraph(p)) :
                LET conn == ConnsOf(TheGraph(p))[i]
                    req == request_payload[p]
                IN  /\ \A order \in Orders :
                        InOrder(order, conn, req)
                            = CascadeConnection(conn, req.name, req.app)
                    /\ \A cat \in Categories :
                        /\ Pass(cat, conn, req).loc = conn.loc
                        /\ \A other \in Categories \ {cat} :
                            Pass(cat, conn, req)[other] = conn[other]

\* A connection with destinations to strip in two categories is cascaded.
C17_Witness ==
    \E p \in Procs :
        /\ Matched(p) /\ pc[p] = "cascade"
        /\ \E i \in DOMAIN ConnsOf(TheGraph(p)) :
            \E c1, c2 \in Categories :
                LET conn == ConnsOf(TheGraph(p))[i]
                    req == request_payload[p]
                IN  /\ c1 # c2
                    /\ Pass(c1, conn, req) # conn
                    /\ Pass(c2, conn, req) # conn
                    /\ HasSomeFlow(CascadeConnection(conn, req.name, req.app))

\* The flows of a container that have a destination not naming the target,
\* in their order, each with its destinations not naming the target, in
\* their order, under its name.
FlowsLeft(flowseq, req) ==
    LET left(flow) ==
            PickFrom(flow.dest,
                {k \in DOMAIN flow.dest :
                    ~NamesTarget(flow.dest[k].loc, req)}, 1)
        stripped == [j \in DOMAIN flowseq |->
                        [name |-> flowseq[j].name,
                         dest |-> left(flowseq[j])]]
    IN  PickFrom(stripped,
            {j \in DOMAIN flowseq : ~OnlyTarget(flowseq[j], req)}, 1)

\* C18 (frame of the cascade): when the validator is about to run, the
\* nodes are the nodes of before without the targets; the connections are,
\* in their order, the connections of before whose source does not name the
\* target and that keep a flow, each with its source and, in every
\* category, exactly its flows that had a destination not naming the
\* target, each with exactly those destinations; nothing is added,
\* reordered or renamed.
C18_Frame ==
    \A p \in Procs :
        (Matched(p) /\ pc[p] = "validate") =>
            LET req == request_payload[p]
                old == OtherSources(original_graph[p], req)
                keep == {i \in DOMAIN old :
                            \E cat \in Categories :
                                FlowsLeft(old[i][cat].val, req) # <<>>}
                idx == PickFrom([i \in DOMAIN old |-> i], keep, 1)
                new == ConnsOf(TheGraph(p))
            IN  /\ TheGraph(p).nodes = OtherNodes(p)
                /\ Len(new) = Len(idx)
                /\ \A n \in DOMAIN new :
                    /\ new[n].loc = old[idx[n]].loc
                    /\ \A cat \in Categories :
                        /\ new[n][cat].val
                            = FlowsLeft(old[idx[n]][cat].val, req)
                        /\ new[n][cat].some = old[idx[n]][cat].some

\* Of three connections two are left, in their order, and a flow of three
\* destinations is left with two of them.
C18_Witness ==
    \E p \in Procs :
        /\ Matched(p) /\ pc[p] = "validate"
        /\ Len(ConnsOf(original_graph[p])) = 3
        /\ Len(ConnsOf(TheGraph(p))) = 2
        /\ \E flow \in FlowsOf(original_graph[p]) :
            /\ Len(flow.dest) = 3
            /\ \E left \in FlowsOf(TheGraph(p)) :
                /\ left.name = flow.name
                /\ Len(left.dest) = 2
                /\ left.dest = FlowsLeft(<<flow>>, request_payload[p])[1].dest

\* An Extension node of the name and app of the request that is not the
\* target: it differs in addon or extension_group.
IsSibling(node, req) ==
    /\ node.type_ = "Extension"
    /\ node.name = req.name
    /\ node.app = req.app
    /\ ~IsTarget(node, req)

C20_NoOpAnsweredAsDeletion ==
    \A p \in Procs :
        (CoreReturned(p) /\ ~Matched(p)) =>
            /\ result[p] = "Ok"
            /\ pc[p] \in {"update_property", "done"}
            /\ pc[p] = "update_property" => update_calls[p] = 0
            /\ pc[p] = "done" =>
                /\ update_calls[p] = 1
                /\ response[p] \in {"Ok", "PropertyFailed"}

\* The graph has nodes, none of them the requested one, and the request was
\* answered success: true after the update of the property file.
C20_Witness ==
    \E p \in Procs :
        /\ pc[p] = "done" /\ ~Matched(p) /\ CoreReturned(p)
        /\ original_graph[p].nodes # <<>>
        /\ TheGraph(p) = original_graph[p]
        /\ update_calls[p] = 1
        /\ response[p] = "Ok"

====
